---- MODULE Spec2Model ----
(***************************************************************************)
(* Model of lib/nfc_handler.py (class NfcHandler): the NDEF record codec,  *)
(* the single-slot write mailbox guarded by write_lock / write_event, and  *)
(* the polling loop of run().                                              *)
(*                                                                         *)
(* Strings that the code takes apart (the text of a TEXT record) are       *)
(* sequences of tokens; every other string is a TLA+ string.  The tokens   *)
(* are chosen so that no token boundary can hide or create the substring   *)
(* "SPOOL:": it occurs in a text exactly when a SPOOL token is directly    *)
(* followed by a ":" token.                                                *)
(***************************************************************************)
EXTENDS Naturals, Sequences, FiniteSets, TLC

\* ------------------------------------------------------------------------
\* Module constants of nfc_handler.py
\* ------------------------------------------------------------------------
SPOOL == "SPOOL"
FILAMENT == "FILAMENT"
NDEF_TEXT_TYPE == "urn:nfc:wkt:T"
NDEF_JSON_TYPE == "application/json"

\* Python's None, kept apart from every string a tag can hold.
None == "<None>"

\* Text tokens.
COLON == ":"
NL == "\n"

\* ------------------------------------------------------------------------
\* Records
\* ------------------------------------------------------------------------
\* The payload of a record that carries no JSON object.
NoData == [protocol |-> None, version |-> None, spool |-> None, filament |-> None]

\* ndef.TextRecord(text)
TextRecord(text) ==
  [type |-> NDEF_TEXT_TYPE, name |-> "", text |-> text, data |-> NoData]

\* ndef.Record(NDEF_JSON_TYPE, name=name, data=json.dumps(obj)); a key that
\* the object lacks is held as None, which is what dict.get answers for it.
JsonRecord(name, obj) ==
  [type |-> NDEF_JSON_TYPE, name |-> name, text |-> <<>>, data |-> obj]

\* A record of any other type (a URI record, say).
OtherRecord == [type |-> "urn:nfc:wkt:U", name |-> "", text |-> <<>>, data |-> NoData]

\* generate_spool_record(spool, filament, version="1.0")
generate_spool_record(spool, filament) ==
  JsonRecord("nfc2klipper",
             [protocol |-> "nfc2klipper", version |-> "1.0",
              spool |-> spool, filament |-> filament])

\* ------------------------------------------------------------------------
\* String helpers, as Python computes them
\* ------------------------------------------------------------------------
\* str.split(sep): the pieces between the separators, empty pieces kept.
RECURSIVE Split(_, _)
Split(s, sep) ==
  IF \A i \in 1..Len(s) : s[i] # sep
    THEN <<s>>
    ELSE LET k == CHOOSE i \in 1..Len(s) :
                    s[i] = sep /\ \A j \in 1..(i - 1) : s[j] # sep
         IN  <<SubSeq(s, 1, k - 1)>> \o Split(SubSeq(s, k + 1, Len(s)), sep)

\* str.splitlines(): split at the line ends, no empty last line.
splitlines(s) ==
  LET pieces == Split(s, NL)
  IN  IF pieces[Len(pieces)] = <<>>
        THEN SubSeq(pieces, 1, Len(pieces) - 1)
        ELSE pieces

\* The string a piece of text stands for.
RECURSIVE Join(_)
Join(part) == IF part = <<>> THEN "" ELSE Head(part) \o Join(Tail(part))

\* text.find("SPOOL:") != -1
HasSpoolPrefix(text) ==
  \E i \in 1..(Len(text) - 1) : text[i] = SPOOL /\ text[i + 1] = COLON

\* ------------------------------------------------------------------------
\* get_data_from_ndef_records
\* ------------------------------------------------------------------------
\* The loop over record.text.splitlines(), from line i on, with the values
\* found so far.
RECURSIVE DecodeLines(_, _, _, _)
DecodeLines(lines, i, spool, filament) ==
  IF i > Len(lines)
    THEN <<spool, filament>>
    ELSE LET line == Split(lines[i], COLON)
             two  == Len(line) = 2
             s2   == IF two /\ Join(line[1]) = SPOOL THEN Join(line[2]) ELSE spool
             f2   == IF two /\ Join(line[1]) = FILAMENT THEN Join(line[2]) ELSE filament
         IN  DecodeLines(lines, i + 1, s2, f2)

\* DecodeFrom with the break after a TEXT record left out: the loop goes on
\* to the records behind it.
RECURSIVE DecodeFrom_no_break(_, _)
DecodeFrom_no_break(records, i) ==
  IF i > Len(records)
    THEN <<None, None>>
    ELSE LET record == records[i]
             rest == DecodeFrom_no_break(records, i + 1)
         IN  IF record.type = NDEF_JSON_TYPE /\ record.name = "nfc2klipper"
               THEN <<record.data.spool, record.data.filament>>
               ELSE IF record.type = NDEF_TEXT_TYPE
                 THEN DecodeLines(splitlines(record.text), 1, rest[1], rest[2])
                 ELSE rest

\* The loop over the records, from record i on: the first JSON record named
\* nfc2klipper or the first TEXT record decides, and the loop breaks there.
RECURSIVE DecodeFrom(_, _)
DecodeFrom(records, i) ==
  IF i > Len(records)
    THEN <<None, None>>
    ELSE LET record == records[i]
         IN  IF record.type = NDEF_JSON_TYPE /\ record.name = "nfc2klipper"
               THEN <<record.data.spool, record.data.filament>>
               ELSE IF record.type = NDEF_TEXT_TYPE
                 THEN DecodeLines(splitlines(record.text), 1, None, None)
                 ELSE DecodeFrom(records, i + 1)

get_data_from_ndef_records(records) == DecodeFrom(records, 1)

\* ------------------------------------------------------------------------
\* _check_for_needs_update
\* ------------------------------------------------------------------------
\* A tag is [ndef, writeable, records]; ndef = FALSE is tag.ndef is None.
IsLegacy(record) == record.type = NDEF_TEXT_TYPE /\ HasSpoolPrefix(record.text)

IsCurrent(record) == record.type = NDEF_JSON_TYPE /\ record.name = "nfc2klipper"

check_for_needs_update(t) ==
  IF ~t.ndef
    THEN FALSE
    ELSE \E i \in 1..Len(t.records) : IsLegacy(t.records[i])

\* ------------------------------------------------------------------------
\* _write_to_nfc_tag
\* ------------------------------------------------------------------------
\* Kept that skips the old JSON record only.
Kept_legacy_too(record) == ~IsCurrent(record)

\* The records the loop of _write_to_nfc_tag builds.
Kept(record) == ~IsCurrent(record) /\ ~IsLegacy(record)

\* RewriteRecords that skips only the old JSON record and keeps legacy text.
RewriteRecords_keeps_legacy(records, spool, filament) ==
  SelectSeq(records, LAMBDA r : ~IsCurrent(r))
    \o <<generate_spool_record(spool, filament)>>

RewriteRecords(records, spool, filament) ==
  SelectSeq(records, Kept) \o <<generate_spool_record(spool, filament)>>

\* The outcome of _write_to_nfc_tag on tag t: the value returned, the status
\* string it leaves and the tag afterwards.  raises says that the exchange
\* with the tag raised; the except branch then answers False and the tag
\* keeps its records.
write_to_nfc_tag(t, spool, filament, raises, status) ==
  IF ~raises /\ t.ndef /\ t.writeable
    THEN [ok |-> TRUE, status |-> status,
          tag |-> [t EXCEPT !.records = RewriteRecords(t.records, spool, filament)]]
    ELSE IF raises
      THEN [ok |-> FALSE, status |-> "Got error while writing", tag |-> t]
      ELSE [ok |-> FALSE, status |-> "Tag is write protected", tag |-> t]

\* ------------------------------------------------------------------------
\* Bounds and the world around the handler
\* ------------------------------------------------------------------------
\* Calls of write_to_tag made in one run, by all producer threads together.
MaxCalls == 2

\* The threads that call write_to_tag, and the ids each asks for.
Producers == {"p1", "p2"}

ProducerArgs ==
  [p \in Producers |-> IF p = "p1" THEN <<"1", "11">> ELSE <<"2", "12">>]

FullText == <<SPOOL, COLON, "23", NL, FILAMENT, COLON, "14", NL>>
SpoolOnlyText == <<SPOOL, COLON, "23", NL>>
FilamentOnlyText == <<FILAMENT, COLON, "14", NL>>
EmptyText == <<>>

\* A text that holds "SPOOL:" but no line that starts with it.
OddText == <<"X", SPOOL, COLON, "5", NL, FILAMENT, COLON, "14", NL>>

\* The tags that can come into range: one without NDEF, a writeable legacy
\* tag and a write-protected current-format tag; and, where no producer is
\* about, also a writeable legacy tag whose text decodes to no spool.
NoTag == "none"
TagIds == {"tN", "tL", "tJ"}
AllTagIds == TagIds \cup {"tX"}

InitialTags ==
  [t \in AllTagIds |->
     CASE t = "tN" -> [ndef |-> FALSE, writeable |-> FALSE, records |-> <<>>]
       [] t = "tL" -> [ndef |-> TRUE, writeable |-> TRUE,
                       records |-> <<OtherRecord, TextRecord(FullText)>>]
       [] t = "tJ" -> [ndef |-> TRUE, writeable |-> FALSE,
                       records |-> <<generate_spool_record("7", "8")>>]
       [] t = "tX" -> [ndef |-> TRUE, writeable |-> TRUE,
                       records |-> <<TextRecord(OddText)>>]]

\* ------------------------------------------------------------------------
\* State
\* ------------------------------------------------------------------------
VARIABLES
  on_nfc_no_tag_present,  \* TRUE once a callback is set
  on_nfc_tag_present,     \* TRUE once a callback is set
  should_stop_event,      \* Event: its flag
  write_lock,             \* Lock: the thread holding it, or Free
  write_event,            \* Event: its flag
  write_spool,
  write_filament,
  epc,                    \* where the thread of run() is
  tag,                    \* run(): the tag clf.connect returned
  ctx,                    \* run(): which call of _check_for_write_to_tag
  did_write,              \* _check_for_write_to_tag: its local
  r_spool,                \* _read_from_tag: its local spool
  r_filament,             \* _read_from_tag: its local filament
  clf,                    \* the ContactlessFrontend: "closed" or "open"
  inRange,                \* the tag physically in range, or NoTag
  tags,                   \* what each tag holds
  ppc,                    \* where each producer is in write_to_tag
  calls,                  \* write_to_tag calls made so far
  ownSpool,               \* history: whose request write_spool is from
  ownFilament,            \* history: whose request write_filament is from
  fate,                   \* history: what became of each request
  noTagFired,             \* history: no-tag callbacks in this presence cycle
  migWritten,             \* history: migration requests written in this cycle
  ctag, cin, cargs, cres, cop   \* the codec exercised on its own

slotVars == <<write_lock, write_event, write_spool, write_filament>>
locals == <<tag, ctx, did_write, r_spool, r_filament>>
engineVars == <<epc, locals, clf>>
worldVars == <<inRange, tags>>
histVars == <<ownSpool, ownFilament, fate>>
cbVars == <<on_nfc_no_tag_present, on_nfc_tag_present>>
codecVars == <<ctag, cin, cargs, cres, cop>>
cycVars == <<noTagFired, migWritten>>
vars == <<cbVars, should_stop_event, slotVars, engineVars, worldVars, ppc,
          calls, histVars, codecVars, cycVars>>

\* History counts tell none (0), once (1) and more than once (2) apart.
Counted(n) == IF n = 0 THEN 1 ELSE 2

Free == "free"
Engine == "engine"
Migration == "mig"
Requesters == Producers \cup {Migration}

\* Python truth of a stored spool id.
Truthy(v) == v # None /\ v # ""

\* __init__, but for the callbacks
CoreInit ==
  /\ should_stop_event = FALSE
  /\ write_lock = Free
  /\ write_event = FALSE
  /\ write_spool = None
  /\ write_filament = None
  /\ epc = "init"
  /\ tag = NoTag
  /\ ctx = "first"
  /\ did_write = FALSE
  /\ r_spool = None
  /\ r_filament = None
  /\ clf = "closed"
  /\ inRange = NoTag
  /\ tags = InitialTags
  /\ ppc = [p \in Producers |-> "idle"]
  /\ calls = 0
  /\ ownSpool = None
  /\ ownFilament = None
  /\ fate = [r \in Requesters |-> "none"]
  /\ noTagFired = 0
  /\ migWritten = 0

\* __init__
HandlerInit ==
  /\ on_nfc_no_tag_present = FALSE
  /\ on_nfc_tag_present = FALSE
  /\ CoreInit

CodecIdle ==
  /\ ctag = InitialTags["tN"]
  /\ cin = InitialTags["tN"]
  /\ cargs = <<None, None, FALSE>>
  /\ cres = <<>>
  /\ cop = "none"

Init == HandlerInit /\ CodecIdle

\* ------------------------------------------------------------------------
\* The slot: write_lock, write_event, write_spool, write_filament
\* ------------------------------------------------------------------------
\* An acquire that never waits.
LockIsFree_never_waits == TRUE

\* self.write_lock.acquire() goes through when no thread holds the lock.
LockIsFree == write_lock = Free

\* History: what a store into write_spool by `who` does to the request it
\* overwrites, and to who's own.  clearing is the store of None by the
\* timeout path of write_to_tag.
FateAfterStore(who, clearing) ==
  [r \in Requesters |->
     IF ~clearing /\ r = who
       THEN "pending"
       ELSE IF r = ownSpool /\ fate[r] = "pending"
         THEN (IF ~clearing THEN "superseded"
               ELSE IF r = who THEN "withdrawn" ELSE "wiped")
         ELSE fate[r]]

\* write_event.set(): the flag is set and every thread blocked in wait() is
\* woken; a woken wait() answers True whatever happens to the flag later,
\* so write_to_tag returns True.
EventSet ==
  /\ write_event' = TRUE
  /\ ppc' = [p \in Producers |-> IF ppc[p] = "blocked" THEN "ret_true" ELSE ppc[p]]

\* ------------------------------------------------------------------------
\* write_to_tag, one producer thread p
\* ------------------------------------------------------------------------
\* _set_write_info, first half: the lock is taken and self.write_spool is
\* assigned; on the way in (idle) the caller's spool, after the timeout
\* (t_acquire) None.
set_write_info_spool(p) ==
  /\ ppc[p] \in {"idle", "t_acquire"}
  /\ ppc[p] = "idle" => calls < MaxCalls
  /\ LockIsFree
  /\ write_lock' = p
  /\ LET clearing == ppc[p] = "t_acquire"
     IN  /\ write_spool' = IF clearing THEN None ELSE ProducerArgs[p][1]
         /\ ownSpool' = IF clearing THEN None ELSE p
         /\ fate' = FateAfterStore(p, clearing)
         /\ ppc' = [ppc EXCEPT ![p] = IF clearing THEN "t_filament" ELSE "s_filament"]
         /\ calls' = IF clearing THEN calls ELSE calls + 1
  /\ UNCHANGED <<write_event, write_filament, cbVars, should_stop_event,
                 engineVars, worldVars, ownFilament, codecVars, cycVars>>

\* set_write_info_filament whose timeout path leaves write_filament as it
\* is: only write_spool was withdrawn.
set_write_info_filament_spool_only(p) ==
  /\ ppc[p] \in {"s_filament", "t_filament"}
  /\ LET clearing == ppc[p] = "t_filament"
     IN  /\ write_filament' = IF clearing THEN write_filament ELSE ProducerArgs[p][2]
         /\ ownFilament' = IF clearing THEN ownFilament ELSE p
         /\ ppc' = [ppc EXCEPT ![p] = IF clearing THEN "ret_false" ELSE "wait"]
  /\ write_event' = FALSE
  /\ write_lock' = Free
  /\ UNCHANGED <<write_spool, cbVars, should_stop_event, engineVars, worldVars,
                 calls, ownSpool, fate, codecVars, cycVars>>

\* _set_write_info, second half: self.write_filament is assigned, the
\* event is cleared and the lock released.  On the way in the caller goes on
\* to wait; after the timeout write_to_tag returns False.
set_write_info_filament(p) ==
  /\ ppc[p] \in {"s_filament", "t_filament"}
  /\ LET clearing == ppc[p] = "t_filament"
     IN  /\ write_filament' = IF clearing THEN None ELSE ProducerArgs[p][2]
         /\ ownFilament' = IF clearing THEN None ELSE p
         /\ ppc' = [ppc EXCEPT ![p] = IF clearing THEN "ret_false" ELSE "wait"]
  /\ write_event' = FALSE
  /\ write_lock' = Free
  /\ UNCHANGED <<write_spool, cbVars, should_stop_event, engineVars, worldVars,
                 calls, ownSpool, fate, codecVars, cycVars>>

\* self.write_event.wait(timeout=30) is entered: with the flag set it
\* answers True at once, otherwise the thread blocks.
wait_begin(p) ==
  /\ ppc[p] = "wait"
  /\ ppc' = [ppc EXCEPT ![p] = IF write_event THEN "ret_true" ELSE "blocked"]
  /\ UNCHANGED <<slotVars, cbVars, should_stop_event, engineVars, worldVars,
                 calls, histVars, codecVars, cycVars>>

\* The 30 seconds pass with no set(): wait() answers False.
wait_timeout(p) ==
  /\ ppc[p] = "blocked"
  /\ ppc' = [ppc EXCEPT ![p] = "t_acquire"]
  /\ UNCHANGED <<slotVars, cbVars, should_stop_event, engineVars, worldVars,
                 calls, histVars, codecVars, cycVars>>

\* The caller has its answer and the thread is free to call again; the
\* history of the finished call is dropped.
write_to_tag_done(p) ==
  /\ ppc[p] \in {"ret_true", "ret_false"}
  /\ ppc' = [ppc EXCEPT ![p] = "idle"]
  /\ fate' = [fate EXCEPT ![p] = "none"]
  /\ UNCHANGED <<slotVars, cbVars, should_stop_event, engineVars, worldVars,
                 calls, ownSpool, ownFilament, codecVars, cycVars>>

Producer(p) ==
  \/ set_write_info_spool(p)
  \/ set_write_info_filament(p)
  \/ wait_begin(p)
  \/ wait_timeout(p)
  \/ write_to_tag_done(p)

\* ------------------------------------------------------------------------
\* run(), the polling thread
\* ------------------------------------------------------------------------
\* Producers whose wait() has answered False.
TimedOut(p) == ppc[p] \in {"t_acquire", "t_filament", "ret_false"}

\* AfterCheck whose inner loop calls _read_from_tag on every sense.
AfterCheck_always_reads(did) == IF ctx = "first" THEN "branch" ELSE "read"

\* Where run() goes on after _check_for_write_to_tag returned did: after the
\* first call it looks at tag.ndef; in the inner loop _read_from_tag follows
\* when a write was done, and the sleep and the next sense otherwise.  ctx
\* stays "inner" while that _read_from_tag of the inner loop runs.
AfterCheck(did) == IF ctx = "first" THEN "branch" ELSE IF did THEN "read" ELSE "sense"

\* with nfc.ContactlessFrontend(self.nfc_device) as clf:
run_start ==
  /\ epc = "init"
  /\ clf' = "open"
  /\ epc' = "top"
  /\ UNCHANGED <<slotVars, cbVars, should_stop_event, locals, worldVars, ppc,
                 calls, histVars, codecVars, cycVars>>

\* while not self.should_stop_event.is_set(): leaving the loop leaves the
\* with block, which closes clf, and run() returns.
run_top ==
  /\ epc = "top"
  /\ IF should_stop_event
       THEN clf' = "closed" /\ epc' = "returned"
       ELSE clf' = clf /\ epc' = "connect"
  /\ UNCHANGED <<slotVars, cbVars, should_stop_event, locals, worldVars, ppc,
                 calls, histVars, codecVars, cycVars>>

\* tag = clf.connect(...); if tag: _check_for_write_to_tag(tag) is next,
\* else: time.sleep(0.2) and back to the top.
run_connect ==
  /\ epc = "connect"
  /\ IF inRange # NoTag
       THEN tag' = inRange /\ epc' = "d_acquire"
       ELSE tag' = NoTag /\ epc' = "top"
  /\ ctx' = "first"
  /\ UNCHANGED <<slotVars, cbVars, should_stop_event, did_write, r_spool,
                 r_filament, clf, worldVars, ppc, calls, ownSpool, ownFilament,
                 fate, codecVars, cycVars>>

\* _check_for_write_to_tag: did_write = False; the lock is taken; if
\* self.write_spool: the write is next, else the lock is released at once
\* and False returned.
check_acquire ==
  /\ epc = "d_acquire"
  /\ LockIsFree
  /\ IF Truthy(write_spool)
       THEN write_lock' = Engine /\ epc' = "d_write" /\ ctx' = ctx
       ELSE write_lock' = Free /\ epc' = AfterCheck(FALSE) /\ ctx' = "first"
  /\ did_write' = FALSE
  /\ UNCHANGED <<write_event, write_spool, write_filament, cbVars,
                 should_stop_event, tag, r_spool, r_filament, clf, worldVars,
                 ppc, calls, histVars, codecVars, cycVars>>

\* _check_for_write_to_tag: if self._write_to_nfc_tag(tag, self.write_spool,
\* self.write_filament): self.write_event.set(); did_write = True.  The
\* exchange raises when the tag of the handle is no longer the one in range,
\* and may raise at any other time.
check_write ==
  /\ epc = "d_write"
  /\ \E raises \in BOOLEAN :
       /\ inRange # tag => raises
       /\ LET r == write_to_nfc_tag(tags[tag], write_spool, write_filament, raises, "")
          IN  /\ tags' = [tags EXCEPT ![tag] = r.tag]
              /\ did_write' = r.ok
              /\ IF r.ok THEN EventSet ELSE UNCHANGED <<write_event, ppc>>
              /\ fate' = [q \in Requesters |->
                            IF q # ownSpool THEN fate[q]
                            ELSE IF ~r.ok THEN "failed"
                            ELSE IF q \in Producers /\ TimedOut(q) THEN "ok_late"
                            ELSE "ok"]
              /\ migWritten' = IF r.ok /\ ownSpool = Migration
                                 THEN Counted(migWritten) ELSE migWritten
  /\ epc' = "d_clear_spool"
  /\ UNCHANGED <<write_lock, write_spool, write_filament, cbVars,
                 should_stop_event, tag, ctx, r_spool, r_filament, clf, inRange,
                 calls, ownSpool, ownFilament, codecVars, noTagFired>>

\* _check_for_write_to_tag: self.write_spool = None
check_clear_spool ==
  /\ epc = "d_clear_spool"
  /\ write_spool' = None
  /\ ownSpool' = None
  /\ epc' = "d_clear_filament"
  /\ UNCHANGED <<write_lock, write_event, write_filament, cbVars,
                 should_stop_event, locals, clf, worldVars, ppc, calls,
                 ownFilament, fate, codecVars, cycVars>>

\* check_release that leaves the lock held when the write failed.
check_release_held_on_failure ==
  /\ epc = "d_clear_filament"
  /\ write_filament' = None
  /\ ownFilament' = None
  /\ write_lock' = IF did_write THEN Free ELSE write_lock
  /\ epc' = AfterCheck(did_write)
  /\ ctx' = "first"
  /\ did_write' = FALSE
  /\ UNCHANGED <<write_event, write_spool, cbVars, should_stop_event, tag,
                 r_spool, r_filament, clf, worldVars, ppc, calls, ownSpool,
                 fate, codecVars, cycVars>>

\* _check_for_write_to_tag: self.write_filament = None;
\* self.write_lock.release(); return did_write
check_release ==
  /\ epc = "d_clear_filament"
  /\ write_filament' = None
  /\ ownFilament' = None
  /\ write_lock' = Free
  /\ epc' = AfterCheck(did_write)
  /\ ctx' = IF AfterCheck(did_write) = "read" THEN ctx ELSE "first"
  /\ did_write' = FALSE
  /\ UNCHANGED <<write_event, write_spool, cbVars, should_stop_event, tag,
                 r_spool, r_filament, clf, worldVars, ppc, calls, ownSpool,
                 fate, codecVars, cycVars>>

\* run_branch that calls _read_from_tag whatever tag.ndef is.
run_branch_reads_without_ndef ==
  /\ epc = "branch"
  /\ epc' = "read"
  /\ noTagFired' = IF ~tags[tag].ndef /\ on_nfc_no_tag_present
                     THEN Counted(noTagFired) ELSE noTagFired
  /\ UNCHANGED <<slotVars, cbVars, should_stop_event, locals, clf, worldVars,
                 ppc, calls, histVars, codecVars, migWritten>>

\* run(): if tag.ndef is None: the no-tag callback, when one is set;
\* else: self._read_from_tag(tag)
run_branch ==
  /\ epc = "branch"
  /\ epc' = IF ~tags[tag].ndef THEN "sense" ELSE "read"
  /\ noTagFired' = IF ~tags[tag].ndef /\ on_nfc_no_tag_present
                     THEN Counted(noTagFired) ELSE noTagFired
  /\ UNCHANGED <<slotVars, cbVars, should_stop_event, locals, clf, worldVars,
                 ppc, calls, histVars, codecVars, migWritten>>

\* _read_from_tag: nothing without a callback; else
\* spool, filament = get_data_from_ndef_records(tag.ndef.records) and, when
\* _check_for_needs_update says so, _set_write_info(spool, filament) takes
\* the lock and assigns self.write_spool.
read_from_tag ==
  /\ epc = "read"
  /\ IF on_nfc_tag_present
       THEN LET data == get_data_from_ndef_records(tags[tag].records)
            IN  /\ r_spool' = data[1]
                /\ r_filament' = data[2]
                /\ IF check_for_needs_update(tags[tag])
                     THEN /\ LockIsFree
                          /\ write_lock' = Engine
                          /\ write_spool' = data[1]
                          /\ ownSpool' = Migration
                          /\ fate' = FateAfterStore(Migration, FALSE)
                          /\ epc' = "m_filament"
                     ELSE /\ epc' = "callback"
                          /\ UNCHANGED <<write_lock, write_spool, ownSpool, fate>>
                /\ ctx' = ctx
       ELSE /\ epc' = "sense"
            /\ ctx' = "first"
            /\ UNCHANGED <<r_spool, r_filament, write_lock, write_spool,
                           ownSpool, fate>>
  /\ UNCHANGED <<write_event, write_filament, cbVars, should_stop_event, tag,
                 did_write, clf, worldVars, ppc, calls, ownFilament, codecVars,
                 cycVars>>

\* _set_write_info called by _read_from_tag, second half:
\* self.write_filament is assigned, the event cleared, the lock released.
migrate_filament ==
  /\ epc = "m_filament"
  /\ write_filament' = r_filament
  /\ ownFilament' = Migration
  /\ write_event' = FALSE
  /\ write_lock' = Free
  /\ epc' = "callback"
  /\ UNCHANGED <<write_spool, cbVars, should_stop_event, locals, clf, worldVars,
                 ppc, calls, ownSpool, fate, codecVars, cycVars>>

\* _read_from_tag: self.on_nfc_tag_present(spool, filament)
tag_present_callback ==
  /\ epc = "callback"
  /\ epc' = "sense"
  /\ r_spool' = None
  /\ r_filament' = None
  /\ ctx' = "first"
  /\ UNCHANGED <<slotVars, cbVars, should_stop_event, tag, did_write, clf,
                 worldVars, ppc, calls, histVars, codecVars, cycVars>>

\* while clf.sense(...): _check_for_write_to_tag(tag) is next; when the
\* sense fails the inner loop ends and run() is back at the top: the
\* presence cycle is over and its history is dropped.
run_sense ==
  /\ epc = "sense"
  /\ IF inRange # NoTag
       THEN /\ tag' = tag /\ ctx' = "inner" /\ epc' = "d_acquire"
            /\ UNCHANGED cycVars
       ELSE /\ tag' = NoTag /\ ctx' = "first" /\ epc' = "top"
            /\ noTagFired' = 0 /\ migWritten' = 0
  /\ UNCHANGED <<slotVars, cbVars, should_stop_event, did_write, r_spool,
                 r_filament, clf, worldVars, ppc, calls, ownSpool, ownFilament,
                 fate, codecVars>>

Run ==
  \/ run_start
  \/ run_top
  \/ run_connect
  \/ check_acquire
  \/ check_write
  \/ check_clear_spool
  \/ check_release
  \/ run_branch
  \/ read_from_tag
  \/ migrate_filament
  \/ tag_present_callback
  \/ run_sense

\* ------------------------------------------------------------------------
\* The callers of the handler and the tags
\* ------------------------------------------------------------------------
\* stop()
stop ==
  /\ ~should_stop_event
  /\ should_stop_event' = TRUE
  /\ UNCHANGED <<slotVars, cbVars, engineVars, worldVars, ppc, calls, histVars,
                 codecVars, cycVars>>

\* set_no_tag_present_callback, before run() is started
set_no_tag_present_callback ==
  /\ epc = "init"
  /\ ~on_nfc_no_tag_present
  /\ on_nfc_no_tag_present' = TRUE
  /\ UNCHANGED <<on_nfc_tag_present, slotVars, should_stop_event, engineVars,
                 worldVars, ppc, calls, histVars, codecVars, cycVars>>

\* set_tag_present_callback, before run() is started
set_tag_present_callback ==
  /\ epc = "init"
  /\ ~on_nfc_tag_present
  /\ on_nfc_tag_present' = TRUE
  /\ UNCHANGED <<on_nfc_no_tag_present, slotVars, should_stop_event, engineVars,
                 worldVars, ppc, calls, histVars, codecVars, cycVars>>

\* A tag is brought into range of the reader.
tag_arrives(t) ==
  /\ inRange = NoTag
  /\ inRange' = t
  /\ UNCHANGED <<slotVars, cbVars, should_stop_event, engineVars, tags, ppc,
                 calls, histVars, codecVars, cycVars>>

\* The tag in range is taken away.
tag_leaves ==
  /\ inRange # NoTag
  /\ inRange' = NoTag
  /\ UNCHANGED <<slotVars, cbVars, should_stop_event, engineVars, tags, ppc,
                 calls, histVars, codecVars, cycVars>>

\* The handler with its producers and the tags, run() never asked to stop.
\* A run() that has returned takes no further step, and neither need a
\* run() that is still going here, so nothing that producers can see of a
\* stopped handler is left out.
Next ==
  \/ Run
  \/ \E p \in Producers : Producer(p)
  \/ set_no_tag_present_callback
  \/ set_tag_present_callback
  \/ \E t \in TagIds : tag_arrives(t)
  \/ tag_leaves

Spec == Init /\ [][Next]_vars

\* run() and stop(), with the tags and no producer.  The thread of run()
\* goes on as long as it has a step to take; stop() need never be called and
\* the tags come and go as they like.
StopNext ==
  \/ Run
  \/ stop
  \/ set_no_tag_present_callback
  \/ set_tag_present_callback
  \/ \E t \in TagIds : tag_arrives(t)
  \/ tag_leaves

StopSpec == Init /\ [][StopNext]_vars /\ WF_vars(Run)

\* run() with the callbacks and every tag, no producer and no stop(): all
\* that is stored in the slot comes from _read_from_tag.
TagNext ==
  \/ Run
  \/ set_no_tag_present_callback
  \/ set_tag_present_callback
  \/ \E t \in AllTagIds : tag_arrives(t)
  \/ tag_leaves

TagSpec == Init /\ [][TagNext]_vars

\* The handler with both callbacks set before anything else happens, its
\* producers, and the writeable legacy tag coming and going.  run() is left
\* free to stall anywhere outside write_lock (which also stands for a run()
\* that was stopped); inside it the thread goes on.  Every producer thread
\* goes on: a thread waiting for the lock gets it when it is freed again and
\* again, and its wait() ends when notified or after the 30 seconds.
FairInit ==
  /\ on_nfc_no_tag_present = TRUE
  /\ on_nfc_tag_present = TRUE
  /\ CoreInit
  /\ CodecIdle

FairNext ==
  \/ Run
  \/ \E p \in Producers : Producer(p)
  \/ tag_arrives("tL")
  \/ tag_leaves

InsideLock == check_write \/ check_clear_spool \/ check_release \/ migrate_filament

AnyProducer == \E p \in Producers : Producer(p)

FairSpec ==
  FairInit /\ [][FairNext]_vars /\ WF_vars(InsideLock) /\ SF_vars(AnyProducer)

\* ------------------------------------------------------------------------
\* The codec on its own: decode, needs-update and write applied to a tag
\* ------------------------------------------------------------------------
\* Longest record sequence a tag under test holds.
MaxRecs == 3

\* The records tags under test are made of: the four TEXT records of the
\* doctest, a text that holds "SPOOL:" inside a longer word ("XSPOOL:5"), a
\* line of three parts ("SPOOL:2:3"), a current-format record, one whose
\* JSON object has no spool key, a JSON record of another name and a record
\* of another type.
RecordUniverse ==
  { TextRecord(EmptyText), TextRecord(SpoolOnlyText),
    TextRecord(FilamentOnlyText), TextRecord(FullText),
    TextRecord(<<"X", SPOOL, COLON, "5">>),
    TextRecord(<<SPOOL, COLON, "2", COLON, "3">>),
    generate_spool_record("7", "8"),
    JsonRecord("nfc2klipper", [NoData EXCEPT !.filament = "9"]),
    JsonRecord("other", [NoData EXCEPT !.spool = "4", !.filament = "5"]),
    OtherRecord }

RecordSeqs == UNION {[1..n -> RecordUniverse] : n \in 0..MaxRecs}

\* The tags under test: every record sequence, writeable or not, and a tag
\* without NDEF.
CodecTags ==
  {[ndef |-> TRUE, writeable |-> w, records |-> rs] :
     w \in BOOLEAN, rs \in RecordSeqs}
  \cup {InitialTags["tN"]}

\* The ids written in the codec runs.
CodecIds == {"1", "23"}

CodecInit ==
  /\ HandlerInit
  /\ ctag \in CodecTags
  /\ cin = ctag
  /\ cargs = <<None, None, FALSE>>
  /\ cres = <<>>
  /\ cop = "none"

\* The handler itself stands still while the codec is exercised.
HandlerIdle ==
  UNCHANGED <<cbVars, should_stop_event, slotVars, engineVars, worldVars, ppc,
              calls, histVars, cycVars>>

\* get_data_from_ndef_records(tag.ndef.records)
codec_decode ==
  /\ cop = "none"
  /\ ctag.ndef
  /\ cres' = get_data_from_ndef_records(ctag.records)
  /\ cop' = "decode"
  /\ UNCHANGED <<ctag, cin, cargs>>
  /\ HandlerIdle

\* _check_for_needs_update(tag)
codec_needs_update ==
  /\ cop = "none"
  /\ cres' = check_for_needs_update(ctag)
  /\ cop' = "needs"
  /\ UNCHANGED <<ctag, cin, cargs>>
  /\ HandlerIdle

\* _write_to_nfc_tag(tag, spool, filament)
codec_write(spool, filament, raises) ==
  /\ cop = "none"
  /\ LET r == write_to_nfc_tag(ctag, spool, filament, raises, "")
     IN  /\ ctag' = r.tag
         /\ cres' = <<r.ok, r.status>>
  /\ cargs' = <<spool, filament, raises>>
  /\ cop' = "write"
  /\ UNCHANGED cin
  /\ HandlerIdle

\* run(), inner loop: after a write that succeeded _read_from_tag decodes
\* the records the tag holds now.
codec_read_back ==
  /\ cop = "write"
  /\ cres[1] = TRUE
  /\ cres' = get_data_from_ndef_records(ctag.records)
  /\ cop' = "read_back"
  /\ UNCHANGED <<ctag, cin, cargs>>
  /\ HandlerIdle

CodecNext ==
  \/ codec_decode
  \/ codec_needs_update
  \/ \E spool \in CodecIds, filament \in CodecIds, raises \in BOOLEAN :
       codec_write(spool, filament, raises)
  \/ codec_read_back

CodecSpec == CodecInit /\ [][CodecNext]_vars

\* ========================================================================
\* Claims about the codec (CodecSpec)
\* ========================================================================
\* The shapes of record the claims speak of, said without the model's own
\* predicates.
IsJsonNfc2klipper(r) == r.type = "application/json" /\ r.name = "nfc2klipper"

IsText(r) == r.type = "urn:nfc:wkt:T"

TextHasSpoolColon(r) ==
  IsText(r) /\ \E i \in 1..(Len(r.text) - 1) : r.text[i] = "SPOOL" /\ r.text[i + 1] = ":"

Recognized(r) == IsJsonNfc2klipper(r) \/ IsText(r)

\* C8: decode does not depend on the order of mixed legacy TEXT records:
\* [empty_text, full_text], [full_text, empty_text], [spool_only,
\* filament_only] and [filament_only, spool_only] all decode to ("23","14").
C8_DecodeOrderIndependent ==
  (cop = "decode" /\
   cin.records \in
     { <<TextRecord(EmptyText), TextRecord(FullText)>>,
       <<TextRecord(FullText), TextRecord(EmptyText)>>,
       <<TextRecord(SpoolOnlyText), TextRecord(FilamentOnlyText)>>,
       <<TextRecord(FilamentOnlyText), TextRecord(SpoolOnlyText)>> })
    => cres = <<"23", "14">>

C10_WriteRewritesRecords ==
  cop = "write" =>
    LET old  == cin.records
        new  == ctag.records
        keep == {i \in 1..Len(old) :
                   ~IsJsonNfc2klipper(old[i]) /\ ~TextHasSpoolColon(old[i])}
        \* the place in new of the kept old record i
        place(i) == Cardinality({j \in keep : j <= i})
    IN  IF cin.ndef /\ cin.writeable /\ ~cargs[3]
          THEN /\ cres[1] = TRUE
               /\ Len(new) = Cardinality(keep) + 1
               /\ \A i \in keep : new[place(i)] = old[i]
               /\ IsJsonNfc2klipper(new[Len(new)])
               /\ new[Len(new)].data =
                    [protocol |-> "nfc2klipper", version |-> "1.0",
                     spool |-> cargs[1], filament |-> cargs[2]]
               /\ Cardinality({i \in 1..Len(new) : IsJsonNfc2klipper(new[i])}) = 1
               /\ \A i \in 1..Len(new) : ~TextHasSpoolColon(new[i])
          ELSE /\ cres[1] = FALSE
               /\ ctag = cin

\* C10 witness: a write on a tag that held a record to keep, a legacy TEXT
\* record and an old JSON nfc2klipper record.
C10_Witness ==
  /\ cop = "write"
  /\ cres[1] = TRUE
  /\ cin.records = <<OtherRecord, TextRecord(FullText), generate_spool_record("7", "8")>>
  /\ ctag.records = <<OtherRecord, generate_spool_record("1", "23")>>

\* ========================================================================
\* Claims about the slot and the polling loop
\* ========================================================================
Returned(p) == ppc[p] \in {"ret_true", "ret_false"}

SlotEmpty == write_spool = None /\ write_filament = None

\* C1: a write_to_tag call whose request the polling thread tried to write
\* and failed is never answered True.
C1_FailedWriteNeverTrue ==
  \A p \in Producers : fate[p] = "failed" => ppc[p] # "ret_true"

\* C2: a write_to_tag call whose request was written successfully before
\* its wait timed out is answered True.
C2_WrittenInTimeReturnsTrue ==
  \A p \in Producers : fate[p] = "ok" => ppc[p] # "ret_false"

C4_SupersededReturnsFalse ==
  /\ (epc = "d_write" /\ ownSpool \in Requesters) => fate[ownSpool] = "pending"
  /\ \A p \in Producers : fate[p] = "superseded" => ppc[p] # "ret_true"

\* C6: storing a request, withdrawing it and the drain exclude each other:
\* at most one thread is between taking and releasing write_lock, outside
\* that the slot holds nothing or one whole request, and the spool and the
\* filament of every physical write were stored together by one request.
InCritical ==
  {p \in Producers : ppc[p] \in {"s_filament", "t_filament"}}
  \cup (IF epc \in {"d_write", "d_clear_spool", "d_clear_filament", "m_filament"}
          THEN {Engine} ELSE {})

\* The (spool, filament) pairs a request of owner o can hold.
RequestsOf(o) ==
  IF o \in Producers
    THEN {ProducerArgs[o]}
    ELSE {get_data_from_ndef_records(InitialTags[t].records) :
            t \in {u \in TagIds : InitialTags[u].ndef}}

WholeRequest ==
  /\ ownSpool = ownFilament
  /\ IF ownSpool = None
       THEN SlotEmpty
       ELSE <<write_spool, write_filament>> \in RequestsOf(ownSpool)

C6_SlotAtomic ==
  /\ Cardinality(InCritical) <= 1
  /\ InCritical = (IF write_lock = Free THEN {} ELSE {write_lock})
  /\ write_lock = Free => WholeRequest
  /\ epc = "d_write" => WholeRequest /\ ownSpool # None

\* C6 witness: the drain is about to write the request of one producer
\* while the other producer is in the middle of its call.
C6_Witness ==
  /\ epc = "d_write"
  /\ ownSpool = "p2"
  /\ ppc["p1"] \in {"wait", "blocked", "t_acquire"}

\* C5: every write_to_tag call returns, write_lock is released after every
\* acquisition, and no thread waits for write_lock while holding it.
SelfDeadlock ==
  \/ write_lock = Engine /\ epc \in {"d_acquire", "read"}
  \/ \E p \in Producers : write_lock = p /\ ppc[p] \in {"idle", "t_acquire"}

C5_CallsReturnNoDeadlock ==
  /\ \A p \in Producers : (ppc[p] # "idle") ~> Returned(p)
  /\ (write_lock # Free) ~> (write_lock = Free)
  /\ []~SelfDeadlock

\* C5 witness: a call has returned False after a physical write for its
\* request raised or was refused, with the lock free again.
C5_Witness ==
  \E p \in Producers :
    ppc[p] = "ret_false" /\ fate[p] = "failed" /\ write_lock = Free

\* C7: once stop() was called, run() in the end returns with the hardware
\* handle released, the tag in range or not.
C7_StopsAfterCurrentStep ==
  should_stop_event ~> (epc = "returned" /\ clf = "closed")

\* ========================================================================
\* Claims about one presence cycle of a tag
\* ========================================================================
\* The tag of the presence cycle run() is in, if it is in one.
InCycle == tag # NoTag

\* C11: in a presence cycle of a tag without NDEF the no-tag-present
\* callback, when one is set, fires exactly once: it has fired once when
\* the first sense of the inner loop is due and never fires again; and
\* _read_from_tag is never entered, so no decode is made and the
\* tag-present callback never fires, whatever write requests arrive.
C11_NoNdefCycle ==
  (InCycle /\ ~tags[tag].ndef) =>
    /\ epc \notin {"read", "m_filament", "callback"}
    /\ noTagFired <= 1
    /\ (on_nfc_no_tag_present /\ (epc = "sense" \/ ctx = "inner")) => noTagFired = 1
    /\ ~on_nfc_no_tag_present => noTagFired = 0

\* C11 witness: a tag without NDEF is in its cycle, the callback has fired
\* once, a write request that arrived was tried on the tag and refused, and
\* the inner loop is about to sense again.
C11_Witness ==
  /\ epc = "sense"
  /\ tag = "tN"
  /\ noTagFired = 1
  /\ \E p \in Producers : fate[p] = "failed"

\* The place of the first recognized record, 0 when there is none.
FirstRecognized(records) ==
  LET hits == {i \in 1..Len(records) : Recognized(records[i])}
  IN  IF hits = {} THEN 0 ELSE CHOOSE i \in hits : \A j \in hits : i <= j

\* The payload of the tag comes from a current-format record.
DecodesFromJson(records) ==
  FirstRecognized(records) # 0 /\ IsJsonNfc2klipper(records[FirstRecognized(records)])

\* C12: with no write_to_tag call ever made, in the presence cycle of a tag
\* that holds a current-format record with spool S and filament F, as long
\* as nothing was written to it in this cycle: no physical write is tried
\* on the tag, no migration request is stored, and the tag-present callback
\* fires with (S, F) on the arrival of the tag and not again on a later
\* sense.
C12_CurrentFormatCycle ==
  (InCycle /\ migWritten = 0 /\ DecodesFromJson(tags[tag].records)) =>
    LET rec == tags[tag].records[FirstRecognized(tags[tag].records)]
    IN  /\ epc # "d_write"
        /\ epc # "m_filament"
        /\ epc = "callback" =>
              /\ ctx = "first"
              /\ r_spool = rec.data.spool
              /\ r_filament = rec.data.filament
        /\ ctx = "inner" => epc \notin {"read", "callback"}

\* The failing sense that ends a presence cycle: run() is back to Absent.
CycleEnds == epc = "sense" /\ epc' = "top"

\* C13: with a tag-present callback set, a writeable tag that came with a
\* legacy payload has been migrated when its presence cycle ends: it holds
\* a JSON nfc2klipper record and no TEXT record with "SPOOL:" any more.
C13_LegacyMigratedInCycle ==
  [][(CycleEnds /\ on_nfc_tag_present /\ tags[tag].ndef /\ tags[tag].writeable)
       => /\ ~check_for_needs_update(tags[tag])
          /\ \E i \in 1..Len(tags[tag].records) :
                IsJsonNfc2klipper(tags[tag].records[i])]_vars

\* C14: while a tag is present every tick (the connect that found the tag
\* and every sense after it) starts with _check_for_write_to_tag, and
\* _read_from_tag is entered only behind it; on a tick of the inner loop
\* _read_from_tag is entered exactly when the drain of that tick wrote the
\* tag successfully; and, with a tag-present callback set, every
\* _read_from_tag decodes and fires the callback before the next sense.
C14_TickOrder ==
  [][/\ (epc \in {"connect", "sense"} /\ epc' \notin {epc, "top"}) => epc' = "d_acquire"
     /\ (epc' = "read" /\ epc # "read") => epc \in {"branch", "d_clear_filament"}
     /\ (epc = "d_write" /\ epc' # epc) => (did_write' <=> write_event')
     /\ (ctx = "inner" /\ epc = "d_acquire" /\ epc' \notin {epc, "d_write"})
          => epc' = "sense"
     /\ (ctx = "inner" /\ epc = "d_clear_filament" /\ epc' # epc)
          => epc' = (IF did_write THEN "read" ELSE "sense")
     /\ (on_nfc_tag_present /\ epc = "read" /\ epc' # epc)
          => /\ epc' \in {"m_filament", "callback"}
             /\ <<r_spool', r_filament'>> = get_data_from_ndef_records(tags[tag].records)
     /\ (epc = "m_filament" /\ epc' # epc) => epc' = "callback"
     /\ (epc = "callback" /\ epc' # epc) => epc' = "sense"]_vars

\* C14 witness: on a tick of the inner loop the drain has written the tag
\* and the callback is about to fire again with what was written.
C14_Witness ==
  /\ epc = "callback"
  /\ ctx = "inner"
  /\ on_nfc_tag_present
  /\ <<r_spool, r_filament>> = ProducerArgs["p1"]

\* C15: decoding the records of a tag right after a successful write of
\* (spool, filament) gives (spool, filament), whatever records the tag held
\* before.
C15_WriteDecodeRoundTrip ==
  cop = "read_back" => cres = <<cargs[1], cargs[2]>>

\* C16: whatever the values of a stored request, _check_for_write_to_tag
\* with a request in the slot goes on to the physical write, and the slot
\* is empty when it has released the lock.
C16_StoredRequestIsPending ==
  [][/\ (epc = "d_acquire" /\ epc' # epc /\ ownSpool # None) => epc' = "d_write"
     /\ (epc \in {"d_acquire", "d_clear_filament"} /\ epc' \notin {epc, "d_write"})
          => SlotEmpty']_vars

\* The record a migration of tag u writes: the JSON record made of what
\* the tag's first, legacy, records decode to.
MigrationRecordOf(u) ==
  LET data == get_data_from_ndef_records(InitialTags[u].records)
  IN  generate_spool_record(data[1], data[2])

\* C17: with no write_to_tag call ever made, the migration request made
\* from the payload of one tag is never written to another tag: no tag
\* ever holds the migration record of a different legacy tag.
C17_MigrationStaysWithItsTag ==
  \A t \in AllTagIds, u \in AllTagIds :
    (u # t /\ check_for_needs_update(InitialTags[u]))
      => \A i \in 1..Len(tags[t].records) : tags[t].records[i] # MigrationRecordOf(u)

\* C18: after a successful physical write the tag needs no update; the
\* _read_from_tag that the inner loop makes after a write never finds a tag
\* that needs one and never stores a migration request, so a presence cycle
\* stores at most the one of its arrival; and at most one migration request
\* is written in a presence cycle.
C18_MigrationDoesNotLoop ==
  /\ (epc = "d_clear_spool" /\ did_write) => ~check_for_needs_update(tags[tag])
  /\ (epc = "read" /\ ctx = "inner") => ~check_for_needs_update(tags[tag])
  /\ epc = "m_filament" => ctx = "first"
  /\ migWritten <= 1

\* C18 witness: the inner loop re-reads the tag after the migration request
\* of this cycle was written to it.
C18_Witness ==
  /\ epc = "read"
  /\ ctx = "inner"
  /\ migWritten = 1
  /\ on_nfc_tag_present
  /\ tags[tag].records = <<OtherRecord, generate_spool_record("23", "14")>>

\* ========================================================================
\* Claims about the timeout path of write_to_tag
\* ========================================================================
\* C19: a write_to_tag call that returns False had its request written to
\* no tag: neither before its wait timed out nor between the timeout and
\* the clearing of the slot.
C19_FalseMeansNotWritten ==
  \A p \in Producers : ppc[p] = "ret_false" => fate[p] \notin {"ok", "ok_late"}

\* C20: the clearing of the slot after a timeout removes the caller's own
\* request only: it never wipes the request of another caller or a
\* migration request, and never clears a write_event that was set.
C20_WithdrawsOwnRequestOnly ==
  /\ \A r \in Requesters : fate[r] # "wiped"
  /\ \A p \in Producers : (ppc[p] = "t_filament" /\ write_event) => fate[p] = "ok_late"

====
